---- MODULE Spec2Model ----
(***************************************************************************)
(* Model of src/src/execution.py: the Execution object (constructor,       *)
(* acquire_data, create_wh, find_path, find_all_files, visualize) and the  *)
(* interactive session loop Execution.test.                                *)
(*                                                                         *)
(* A file name is the tuple of its '.'-separated parts, as file.split('.') *)
(* yields them: <<uid digits, sample digits, extension>>.  Digit strings   *)
(* are sequences over 0..9, so that zfill/format and int() are computed    *)
(* and not assumed to be inverse to each other.                            *)
(* A directory is a function from the names it holds to image contents.    *)
(*                                                                         *)
(* DataProcessing, ModelEngineering, Warehouse and CamStreamer are not     *)
(* part of execution.py; they are modelled from their contracts.           *)
(***************************************************************************)
EXTENDS Integers, Sequences, FiniteSets, TLC

\* ---------------------------------------------------------------- bounds
\* Largest number of faces the detector reports in one captured frame.
MaxFaces == 2
\* Largest number of files the train directory holds (enrolment is cut off there).
MaxFiles == 3

\* ------------------------------------------------------ program constants
\* str(...).zfill(4)
PadWidth == 4
\* selected_uid = -1: the "no identity" value
Unknown == -1

\* Embedding values the encoder produces.
Embeddings == {0}
\* Number of faces the detector finds again in a stored crop.
Redetect == {0, 1}

\* ------------------------------------------------------------- strings
RECURSIVE str(_)
\* str(n) for n >= 0: the decimal digits of n
str(n) == IF n < 10 THEN <<n>> ELSE str(n \div 10) \o <<n % 10>>

RECURSIVE zfill(_, _)
\* s.zfill(width): left-pad with zeros up to width, longer strings unchanged
zfill(s, width) == IF Len(s) >= width THEN s ELSE zfill(<<0>> \o s, width)

RECURSIVE int(_)
\* int(s) of a digit string
int(s) == IF Len(s) = 0 THEN 0
          ELSE 10 * int(SubSeq(s, 1, Len(s) - 1)) + s[Len(s)]

\* '{}.{}.jpg'.format(a, b), already split at the dots
format(a, b) == <<a, b, "jpg">>

\* name_parts[-1] == 'jpg'
IsJpg(file) == file[Len(file)] = "jpg"

\* ---------------------------------------------------------- directories
\* A total order on file names, standing for the order os.listdir returns.
NameKey(file) == <<Len(file[1]), int(file[1]), Len(file[2]), int(file[2]),
                   IF IsJpg(file) THEN 0 ELSE 1>>

RECURSIVE KeyLess(_, _, _)
KeyLess(a, b, i) == IF i > Len(a) THEN FALSE
                    ELSE IF a[i] # b[i] THEN a[i] < b[i]
                    ELSE KeyLess(a, b, i + 1)

RECURSIVE SortNames(_)
SortNames(S) == IF S = {} THEN <<>>
                ELSE LET m == CHOOSE x \in S :
                                 \A y \in S \ {x} : KeyLess(NameKey(x), NameKey(y), 1)
                     IN <<m>> \o SortNames(S \ {m})

\* os.listdir(directory)
listdir(dir) == SortNames(DOMAIN dir)

\* cv2.imwrite(path, img) into a directory: creates or overwrites
imwrite(dir, path, img) == [f \in DOMAIN dir \cup {path} |->
                               IF f = path THEN img ELSE dir[f]]

\* the directory without one file
unlink(dir, path) == [f \in DOMAIN dir \ {path} |-> dir[f]]

RECURSIVE remove_all(_, _, _)
\* for path in images_paths: os.remove(path).  os.remove raises on a path that
\* does not exist; the files removed before that stay removed.
remove_all(dir, paths, i) ==
    IF i > Len(paths) THEN [dir |-> dir, raised |-> FALSE]
    ELSE IF paths[i] \notin DOMAIN dir THEN [dir |-> dir, raised |-> TRUE]
    ELSE remove_all(unlink(dir, paths[i]), paths, i + 1)

\* ---------------------------------------------------------------- images
\* A crop (and so the content of a stored sample): the embedding the encoder
\* gives it and the number of faces the detector finds in it.
Crop(e, nf) == [emb |-> e, nf |-> nf, norm |-> FALSE]

\* A captured frame: absent, or h x w pixels showing a sequence of faces.
NoFrame == [none |-> TRUE, h |-> 0, w |-> 0, faces |-> <<>>, annots |-> <<>>]
Frame(h, w, faces) == [none |-> FALSE, h |-> h, w |-> w, faces |-> faces, annots |-> <<>>]

IsFrame(image) == "faces" \in DOMAIN image

\* data_processing.detect_faces(image): the bounding boxes, in the detector's order
detect_faces(image) == IF IsFrame(image) THEN [b \in 1 .. Len(image.faces) |-> b]
                       ELSE [b \in 1 .. image.nf |-> b]

\* data_processing.crop(image, bbox) on a captured frame: the sub-images it may
\* give.  The frame does not settle what the detector finds in the sub-image
\* once it is stored and read back.
crop(image, bbox) == {Crop(image.faces[bbox].emb, nf) : nf \in Redetect}

\* data_processing.crop(image, bbox) on a stored sample, which is a crop already
crop_stored(image, bbox) == image

\* data_processing.process(image): the normalised image
process(image) == [image EXCEPT !.norm = TRUE]

\* model_engineering.encode(images): one embedding per image
encode(images) == [i \in 1 .. Len(images) |-> images[i].emb]

\* Execution.visualize(image, bbox, uid); bbox = 0 stands for None
visualize(image, bbox, uid) ==
    IF bbox = 0 THEN image
    ELSE [image EXCEPT !.annots = Append(@, <<bbox, uid>>)]

\* ------------------------------------------------------------- warehouse
\* Face(): a new object (oid is its identity) with image, uid and embedding
\* (absent until encoded)
Face(img, uid, oid) == [image |-> img, uid |-> uid, embedding |-> <<>>, oid |-> oid]

RECURSIVE AddFaces(_, _, _, _, _, _)
\* for bbox in bboxes: face = Face() ... warehouse.add(face); heap is the number
\* of Face objects that existed before this warehouse was begun
AddFaces(warehouse, image, label, bboxes, i, heap) ==
    IF i > Len(bboxes) THEN warehouse
    ELSE AddFaces(Append(warehouse, Face(process(crop_stored(image, bboxes[i])), label,
                                         heap + Len(warehouse) + 1)),
                  image, label, bboxes, i + 1, heap)

RECURSIVE ReadFiles(_, _, _, _, _)
\* for file in os.listdir(directory): ...
ReadFiles(warehouse, dir, files, i, heap) ==
    IF i > Len(files) THEN warehouse
    ELSE LET file == files[i]
         IN IF IsJpg(file)
            THEN ReadFiles(AddFaces(warehouse, dir[file], int(file[1]),
                                    detect_faces(dir[file]), 1, heap),
                           dir, files, i + 1, heap)
            ELSE ReadFiles(warehouse, dir, files, i + 1, heap)

\* Execution.create_wh(directory): a new Warehouse of new Face objects
create_wh(dir, heap) == ReadFiles(<<>>, dir, listdir(dir), 1, heap)

\* for face in wh.get_faces(): face.embedding = encode([face.image])
EncodeAll(wh) == [i \in DOMAIN wh |-> [wh[i] EXCEPT !.embedding = encode(<<wh[i].image>>)]]

\* Warehouse.get_persons(): one person per distinct uid
get_persons(wh) == {[uid |-> wh[i].uid] : i \in DOMAIN wh}

\* ------------------------------------------------------- matching engine
\* ModelEngineering.knn_fit(warehouse): the (embedding, uid) pairs in fit order
knn_fit(wh) == [i \in DOMAIN wh |-> [embedding |-> wh[i].embedding[1], uid |-> wh[i].uid]]

\* ModelEngineering.knn_classify(embedding): the uids it may return, which are
\* the uid of some fitted sample, or Unknown (nothing fitted, or nothing near).
knn_classify(index, embedding) ==
    {index[i].uid : i \in DOMAIN index} \cup {Unknown}

\* ------------------------------------------------------------- allocator
\* (mutant) the scan without the test of the extension
SamplesNumAnyExt(dir, uid) ==
    Cardinality({file \in DOMAIN dir : int(file[1]) = uid})

\* the scan of find_path / find_all_files: jpg files whose first part parses to uid
SamplesNum(dir, uid) ==
    Cardinality({file \in DOMAIN dir : IsJpg(file) /\ int(file[1]) = uid})

\* (mutant) find_all_files numbering the samples from 1
find_all_files_from1(dir, uid) ==
    [sample \in 1 .. SamplesNum(dir, uid) |->
        format(zfill(str(uid), PadWidth), zfill(str(sample), PadWidth))]

\* Execution.find_all_files(uid)
find_all_files(dir, uid) ==
    [sample \in 1 .. SamplesNum(dir, uid) |->
        format(zfill(str(uid), PadWidth), zfill(str(sample - 1), PadWidth))]

\* (mutant) the new uid taken after the largest existing one
FirstFreeAfterMax(new_uid, existing_uids) ==
    IF existing_uids = {} THEN new_uid
    ELSE 1 + CHOOSE m \in existing_uids : \A u \in existing_uids : u <= m

RECURSIVE FirstFree(_, _)
\* new_uid = 0; while new_uid in existing_uids: new_uid += 1
FirstFree(new_uid, existing_uids) ==
    IF new_uid \in existing_uids THEN FirstFree(new_uid + 1, existing_uids)
    ELSE new_uid

\* (mutant) find_path numbering the samples of an existing uid from 1
find_path_from1(dir, wh, uid) ==
    IF uid = Unknown
    THEN LET existing_uids == {person.uid : person \in get_persons(wh)}
         IN format(zfill(str(FirstFree(0, existing_uids)), PadWidth),
                   zfill(str(0), PadWidth))
    ELSE format(zfill(str(uid), PadWidth), zfill(str(SamplesNum(dir, uid) + 1), PadWidth))

\* Execution.find_path(uid)
find_path(dir, wh, uid) ==
    IF uid = Unknown
    THEN LET existing_uids == {person.uid : person \in get_persons(wh)}
         IN format(zfill(str(FirstFree(0, existing_uids)), PadWidth),
                   zfill(str(0), PadWidth))
    ELSE format(zfill(str(uid), PadWidth), zfill(str(SamplesNum(dir, uid)), PadWidth))

\* ------------------------------------------------------------------ state
VARIABLES
    pc,             \* position of the session loop
    train,          \* dataset/train
    tst,            \* dataset/test
    trn_wh,         \* data_acquisition.trn_wh
    tst_wh,         \* data_acquisition.tst_wh
    knn,            \* the fitted index of model_engineering
    image,          \* local image of test()
    bboxes,         \* local bboxes of test()
    idx,            \* position of `for bbox in bboxes`
    selected_face,  \* local selected_face of test(); <<>> stands for None
    selected_uid,   \* local selected_uid of test()
    released,       \* number of cam_streamer.release() calls
    face_jpg,       \* whether the file face.jpg exists
    cut,            \* where selected_face was cut: the box, and the number of
                    \* annotations on the image it was cut from
    last            \* the command handled in this iteration and what it did

vars == <<pc, train, tst, trn_wh, tst_wh, knn, image, bboxes, idx,
          selected_face, selected_uid, released, face_jpg, cut, last>>

\* no candidate, so nothing it was cut from
NoCut == [box |-> 0, marks |-> 0]

NoCmd == [k |-> "none", uid |-> Unknown, path |-> <<>>, paths |-> <<>>, saved |-> <<>>]

\* ------------------------------------------------------------ directories
\* trn_dir = os.path.join(self.pkg_dir, 'dataset', 'train')
trn_dir == "train"
\* tst_dir = os.path.join(self.pkg_dir, 'dataset', 'test')
tst_dir == "test"

\* (mutant) find_path and find_all_files working in dataset/test
dataset_dir_test == "test"

\* dataset_dir = os.path.join(self.pkg_dir, 'dataset', 'train') of find_path and
\* find_all_files
dataset_dir == "train"

\* the content of a directory
Dir(name) == IF name = trn_dir THEN train ELSE tst

\* the directory of that name gets a new content, the other one keeps its own
Stored(name, dir) ==
    /\ train' = IF name = trn_dir THEN dir ELSE train
    /\ tst' = IF name = tst_dir THEN dir ELSE tst

\* acquire_data(), lines 35 and 37-38: the training warehouse, encoded
acquire_trn(trainDir) == EncodeAll(create_wh(trainDir, 0))

\* acquire_data(), lines 36 and 39-40: the test warehouse, encoded; its Face
\* objects are created after those of the training warehouse
acquire_tst(trainDir, testDir) ==
    EncodeAll(create_wh(testDir, Len(create_wh(trainDir, 0))))

\* ------------------------------------------------------------------ init
Name(uid, sample) == format(zfill(str(uid), PadWidth), zfill(str(sample), PadWidth))

\* Files a train directory may hold when the program starts.
InitFiles ==
    { Name(0, 0), Name(1, 0), Name(1, 1),
      <<str(1), str(0), "jpg">>,
      <<zfill(str(1), PadWidth), zfill(str(0), PadWidth), "png">> }

\* Every image stored at the start shows one face the detector finds.
InitImage(file) == Crop(0, 1)

InitDirs == { [f \in S |-> InitImage(f)] :
                 S \in {T \in SUBSET InitFiles : Cardinality(T) < MaxFiles} }

TestDir == [f \in {Name(0, 0)} |-> Crop(0, 1)]

Init ==
    /\ train \in InitDirs
    /\ tst = TestDir
    /\ trn_wh = acquire_trn(train)
    /\ tst_wh = acquire_tst(train, tst)
    /\ knn = knn_fit(acquire_trn(train))
    /\ pc = "acquire"
    /\ image = NoFrame
    /\ bboxes = <<>>
    /\ idx = 1
    /\ selected_face = <<>>
    /\ selected_uid = Unknown
    /\ released = 0
    /\ face_jpg = FALSE
    /\ cut = NoCut
    /\ last = NoCmd

\* ---------------------------------------------------------------- frames
FaceSeqs == UNION { [1 .. n -> [emb : Embeddings]] : n \in 0 .. MaxFaces }

\* What cam_streamer.get_frame() may return.
Frames == {NoFrame, Frame(0, 1, <<>>), Frame(1, 0, <<>>)}
             \cup {Frame(1, 1, fs) : fs \in FaceSeqs}

\* (mutant) the width test of line 94 left out
DroppedHeightOnly(frame) == frame.none \/ ~(frame.h > 0)

\* image is None or not image.shape[0] > 0 or not image.shape[1] > 0
Dropped(frame) == frame.none \/ ~(frame.h > 0) \/ ~(frame.w > 0)

\* --------------------------------------------------------------- actions
\* (mutant) acquire_data() with the knn_fit that follows it left out
ReacquireNoFit(trainDir, testDir) ==
    /\ trn_wh' = acquire_trn(trainDir)
    /\ tst_wh' = acquire_tst(trainDir, testDir)
    /\ knn' = knn

\* acquire_data() followed by knn_fit(trn_wh), on the directories as given
Reacquire(trainDir, testDir) ==
    /\ trn_wh' = acquire_trn(trainDir)
    /\ tst_wh' = acquire_tst(trainDir, testDir)
    /\ knn' = knn_fit(acquire_trn(trainDir))

\* Back to `while not stop`: image, bboxes and the position of the per-face loop
\* are rebound by the next iteration before anything reads them (and are gone
\* when the loop ends).
LoopBack ==
    /\ image' = NoFrame
    /\ bboxes' = <<>>
    /\ idx' = 1

\* (mutant) lines 98-100 without the reset of the selected candidate
StartFacesKeepSelection(frame) ==
    /\ bboxes' = detect_faces(frame)
    /\ idx' = 1
    /\ UNCHANGED <<selected_face, selected_uid, cut>>
    /\ pc' = IF Len(detect_faces(frame)) = 0 THEN "await" ELSE "faces"

\* lines 98-100: detect the faces of the frame and forget the last candidate
StartFaces(frame) ==
    /\ bboxes' = detect_faces(frame)
    /\ idx' = 1
    /\ selected_face' = <<>>
    /\ selected_uid' = Unknown
    /\ cut' = NoCut
    /\ pc' = IF Len(detect_faces(frame)) = 0 THEN "await" ELSE "faces"

\* lines 93-100: get a frame; drop it, or detect its faces
GetFrame ==
    /\ pc = "acquire"
    /\ \E frame \in Frames :
         /\ image' = frame
         /\ last' = NoCmd
         /\ IF Dropped(frame)
            THEN /\ pc' = "acquire"
                 /\ UNCHANGED <<bboxes, idx, selected_face, selected_uid, cut>>
            ELSE StartFaces(frame)
    /\ UNCHANGED <<train, tst, trn_wh, tst_wh, knn, released, face_jpg>>

\* (mutant) the candidate selected once, by the first face of the frame
SelectFirstOnly(cropped_face, uid, bbox) ==
    IF selected_face = <<>>
    THEN /\ selected_face' = cropped_face
         /\ selected_uid' = uid
         /\ cut' = [box |-> bbox, marks |-> Len(image.annots)]
    ELSE UNCHANGED <<selected_face, selected_uid, cut>>

\* lines 107-108: the face just classified becomes the selected candidate; it
\* was cut (line 102) from image as it was before line 106 annotated it
Select(cropped_face, uid, bbox) ==
    /\ selected_face' = cropped_face
    /\ selected_uid' = uid
    /\ cut' = [box |-> bbox, marks |-> Len(image.annots)]

\* lines 101-108: one pass of the per-face loop
ClassifyFace ==
    /\ pc = "faces"
    /\ idx <= Len(bboxes)
    /\ \E cropped_face \in crop(image, bboxes[idx]) :
         LET bbox == bboxes[idx]
             face == process(cropped_face)
             embedding == encode(<<face>>)
         IN \E uid \in knn_classify(knn, embedding[1]) :
              /\ image' = visualize(image, bbox, uid)
              /\ Select(cropped_face, uid, bbox)
    /\ idx' = idx + 1
    /\ pc' = IF idx + 1 > Len(bboxes) THEN "await" ELSE "faces"
    /\ UNCHANGED <<train, tst, trn_wh, tst_wh, knn, bboxes, released, face_jpg, last>>

\* (mutant) the ESC branch never taken (k compared with another key code)
KeyEscIgnored ==
    /\ pc = "await"
    /\ pc' = "acquire"
    /\ last' = [NoCmd EXCEPT !.k = "esc"]
    /\ LoopBack
    /\ UNCHANGED <<train, tst, trn_wh, tst_wh, knn, selected_face, selected_uid,
                   released, face_jpg, cut>>

\* lines 112-115: ESC
KeyEsc ==
    /\ pc = "await"
    /\ released' = released + 1
    /\ pc' = "stopped"
    /\ last' = [NoCmd EXCEPT !.k = "esc"]
    /\ LoopBack
    /\ UNCHANGED <<train, tst, trn_wh, tst_wh, knn, selected_face, selected_uid, face_jpg, cut>>

\* (mutant) 's' as the comment of line 116 has it: save and exit
KeySaveAndExit ==
    /\ pc = "await"
    /\ face_jpg' = TRUE
    /\ released' = released + 1
    /\ pc' = "stopped"
    /\ last' = [NoCmd EXCEPT !.k = "s", !.saved = image]
    /\ LoopBack
    /\ UNCHANGED <<train, tst, trn_wh, tst_wh, knn, selected_face, selected_uid, cut>>

\* lines 116-117: 's'
KeySave ==
    /\ pc = "await"
    /\ face_jpg' = TRUE
    /\ pc' = "acquire"
    /\ last' = [NoCmd EXCEPT !.k = "s", !.saved = image]
    /\ LoopBack
    /\ UNCHANGED <<train, tst, trn_wh, tst_wh, knn, selected_face, selected_uid, released, cut>>

\* lines 118-123: 'a'
KeyEnroll ==
    /\ pc = "await"
    /\ IF selected_face # <<>>
       THEN LET dir == Dir(dataset_dir)
                image_path == find_path(dir, trn_wh, selected_uid)
                written == imwrite(dir, image_path, selected_face)
            IN /\ Cardinality(DOMAIN dir) < MaxFiles
               /\ Stored(dataset_dir, written)
               /\ Reacquire(train', tst')
               /\ last' = [NoCmd EXCEPT !.k = "a", !.uid = selected_uid,
                                        !.path = image_path]
       ELSE /\ last' = [NoCmd EXCEPT !.k = "a"]
            /\ UNCHANGED <<train, tst, trn_wh, tst_wh, knn>>
    /\ pc' = "acquire"
    /\ LoopBack
    /\ UNCHANGED <<selected_face, selected_uid, released, face_jpg, cut>>

\* lines 124-130: 'd'
KeyDelete ==
    /\ pc = "await"
    /\ IF selected_uid # Unknown
       THEN LET dir == Dir(dataset_dir)
                images_paths == find_all_files(dir, selected_uid)
                removal == remove_all(dir, images_paths, 1)
            IN /\ Stored(dataset_dir, removal.dir)
               /\ last' = [NoCmd EXCEPT !.k = "d", !.uid = selected_uid,
                                        !.paths = images_paths]
               /\ IF removal.raised
                  THEN /\ pc' = "crashed"
                       /\ UNCHANGED <<trn_wh, tst_wh, knn>>
                  ELSE /\ pc' = "acquire"
                       /\ Reacquire(train', tst')
       ELSE /\ last' = [NoCmd EXCEPT !.k = "d"]
            /\ pc' = "acquire"
            /\ UNCHANGED <<train, tst, trn_wh, tst_wh, knn>>
    /\ LoopBack
    /\ UNCHANGED <<selected_face, selected_uid, released, face_jpg, cut>>

\* cv2.waitKey(30) timed out or returned a key with no branch
KeyOther ==
    /\ pc = "await"
    /\ pc' = "acquire"
    /\ last' = [NoCmd EXCEPT !.k = "other"]
    /\ LoopBack
    /\ UNCHANGED <<train, tst, trn_wh, tst_wh, knn, selected_face, selected_uid,
                   released, face_jpg, cut>>

Next == GetFrame \/ ClassifyFace \/ KeyEsc \/ KeySave \/ KeyEnroll \/ KeyDelete \/ KeyOther

Spec == Init /\ [][Next]_vars

\* The session of a user who keeps issuing the terminate command: every
\* cv2.waitKey(30) returns 27.
NextEsc == GetFrame \/ ClassifyFace \/ KeyEsc

\* The loop is the only thread and keeps running while stop is False.
SpecEsc == Init /\ [][NextEsc]_vars /\ WF_vars(NextEsc)

\* ================================================================ claims
\* uids of the identities of a warehouse
UidsOf(wh) == {wh[i].uid : i \in DOMAIN wh}

\* the stored samples (jpg files) of a uid
SamplesOf(dir, u) == {file \in DOMAIN dir : file[3] = "jpg" /\ int(file[1]) = u}

\* the samples of uid u are exactly the zero-padded identifiers (u,0)..(u,n-1)
Contiguous(dir, u) ==
    LET S == SamplesOf(dir, u)
    IN /\ \A file \in S : Len(file[1]) = PadWidth /\ Len(file[2]) = PadWidth
       /\ {int(file[2]) : file \in S} = 0 .. (Cardinality(S) - 1)

\* the step is the enroll command acting on a selected candidate
EnrollStep == pc = "await" /\ last'.k = "a" /\ last'.path # <<>>

\* the step is the delete command acting on a selected uid
DeleteStep == pc = "await" /\ last'.k = "d" /\ selected_uid # Unknown

\* C1: whenever the loop is about to classify a face, the fitted index is the
\* one fitted from the current training warehouse, and that warehouse is the
\* one built and encoded from the current content of the train directory.
C1_RefitInvariant ==
    pc = "faces" => /\ knn = knn_fit(trn_wh)
                    /\ trn_wh = EncodeAll(create_wh(train, 0))

\* C1 witness: a face is being classified after an enrolment changed the
\* directory (only enrolled crops can be images the detector finds no face in)
\* while the gallery is not empty.
C1_Witness ==
    /\ pc = "faces"
    /\ knn # <<>>
    /\ \E file \in DOMAIN train : train[file].nf = 0

\* C2 (as claimed): whenever an enroll command can act, the path find_path
\* allocates for the selected uid names no file of the train directory.
C2_EnrollNeverOverwrites ==
    (pc = "await" /\ selected_face # <<>>)
        => find_path(train, trn_wh, selected_uid) \notin DOMAIN train

\* C3: an enrolment with uid -1 writes the file whose uid is the smallest
\* non-negative integer that is no uid of the training gallery, with sample
\* index 0.
C3_NewIdentityAllocation ==
    [][(EnrollStep /\ selected_uid = Unknown) =>
          LET u == int(last'.path[1])
          IN /\ u \notin UidsOf(trn_wh)
             /\ \A v \in 0 .. (u - 1) : v \in UidsOf(trn_wh)
             /\ int(last'.path[2]) = 0
             /\ last'.path[3] = "jpg"
             /\ last'.path \in DOMAIN train']_vars

\* C3 witness: a new identity got uid 0 while uid 1 is in the gallery (the
\* first gap, where max+1 would be 2).
C3_Witness ==
    /\ last.k = "a" /\ last.uid = Unknown
    /\ last.path # <<>> /\ int(last.path[1]) = 0
    /\ 1 \in UidsOf(trn_wh)

\* C4: an enrolment under a uid other than -1 writes the file with that uid
\* and with sample index the number of jpg files of the train directory whose
\* first part parses to that uid.
C4_ExistingIdentityAllocation ==
    [][(EnrollStep /\ selected_uid # Unknown) =>
          /\ int(last'.path[1]) = selected_uid
          /\ int(last'.path[2]) = Cardinality(SamplesOf(train, selected_uid))
          /\ last'.path[3] = "jpg"
          /\ last'.path \in DOMAIN train']_vars

\* C4 witness: uid 1 had one sample, so the enrolment got index 1, in a
\* directory that also holds a file of uid 1 that is no jpg.
C4_Witness ==
    /\ last.k = "a" /\ last.uid = 1
    /\ last.path # <<>> /\ int(last.path[2]) = 1
    /\ \E file \in DOMAIN train : file[3] # "jpg" /\ int(file[1]) = 1

\* C5: a delete of a uid whose samples are the contiguous zero-padded
\* identifiers removes exactly those files: none of that uid remains, every
\* other file stays with its content, and the loop goes on.
C5_DeletionCompleteness ==
    [][(DeleteStep /\ Contiguous(train, selected_uid)) =>
          /\ pc' = "acquire"
          /\ DOMAIN train' = DOMAIN train \ SamplesOf(train, selected_uid)
          /\ SamplesOf(train', selected_uid) = {}
          /\ \A file \in DOMAIN train' : train'[file] = train[file]]_vars

\* C5 witness: two samples of one uid were deleted and a file of another uid
\* is still stored.
C5_Witness ==
    /\ pc = "acquire" /\ last.k = "d" /\ Len(last.paths) = 2
    /\ SamplesOf(train, last.uid) = {}
    /\ \E file \in DOMAIN train : file[3] = "jpg" /\ int(file[1]) # last.uid

\* C6: an enroll or delete command in a frame without detected faces leaves
\* the directories, both warehouses and the fitted index as they are, and the
\* loop goes on to the next frame.
C6_NoCandidateNoOp ==
    [][(pc = "await" /\ Len(bboxes) = 0 /\ last'.k \in {"a", "d"}) =>
          /\ pc' = "acquire"
          /\ UNCHANGED <<train, tst, trn_wh, tst_wh, knn, released>>]_vars

\* C6 witness: an enroll command did nothing, in a session that had enrolled a
\* candidate of an earlier frame.
C6_Witness ==
    /\ pc = "acquire" /\ last.k = "a" /\ last.path = <<>>
    /\ \E file \in DOMAIN train : train[file].nf = 0

\* C7: a frame that is absent or has zero height or width is dropped: nothing
\* is detected, classified or handled, nothing stored or fitted changes, and
\* the loop acquires the next frame.
C7_DroppedFrame ==
    [][(pc = "acquire" /\ (image'.none \/ image'.h = 0 \/ image'.w = 0)) =>
          /\ pc' = "acquire"
          /\ UNCHANGED <<train, tst, trn_wh, tst_wh, knn, bboxes, idx,
                         selected_face, selected_uid, released, face_jpg, cut>>]_vars

\* C7 witness: a frame of zero width was dropped after a command was handled
\* in an earlier frame.
C7_Witness ==
    /\ pc = "acquire" /\ ~image.none /\ image.w = 0 /\ image.h > 0
    /\ selected_face # <<>>

\* C8 (as claimed): however the loop stops, release() was called exactly once,
\* and the loop stops by the terminate command only.
C8_ReleaseOnEveryStop ==
    /\ pc \in {"stopped", "crashed"} => released = 1
    /\ pc # "crashed"

\* C9 (as claimed): after an enrolment the refitted gallery holds a sample
\* built from the written file under the uid of its name; after a delete of a
\* uid the refitted gallery holds no sample of that uid.
C9_MutationReflected ==
    /\ (pc = "acquire" /\ last.k = "a" /\ last.path # <<>>) =>
          \E i \in DOMAIN trn_wh :
             /\ trn_wh[i].uid = int(last.path[1])
             /\ trn_wh[i].image = process(train[last.path])
             /\ knn[i].uid = int(last.path[1])
    /\ (pc = "acquire" /\ last.k = "d" /\ last.uid # Unknown) =>
          /\ last.uid \notin UidsOf(trn_wh)
          /\ \A i \in DOMAIN knn : knn[i].uid # last.uid

\* C10 (as claimed): with an empty gallery a frame with detected faces gets no
\* annotation and the loop goes on to the command.
C10_EmptyGalleryDegrades ==
    (pc = "await" /\ knn = <<>> /\ Len(bboxes) > 0) => image.annots = <<>>

C12_LastFaceSelected ==
    [][(pc = "await" /\ Len(bboxes) >= 1) =>
          LET n == Len(bboxes)
              u == image.annots[n][2]
          IN /\ cut.box = bboxes[n]
             /\ image.annots[n][1] = bboxes[n]
             /\ selected_face # <<>>
             /\ selected_uid = u
             /\ (last'.k = "a" => /\ last'.uid = u
                                  /\ last'.path # <<>>
                                  /\ train'[last'.path] = selected_face)
             /\ (last'.k = "d" /\ u # Unknown =>
                    /\ last'.uid = u
                    /\ \A i \in DOMAIN last'.paths : int(last'.paths[i][1]) = u)]_vars

\* C12 witness: the face enrolled was the second of two faces of its frame.
C12_Witness ==
    /\ pc = "acquire" /\ last.k = "a" /\ last.path # <<>>
    /\ cut.box = 2

\* C16 (as claimed): every face that is cropped and selected was cut from an
\* image on which no annotation had been drawn.
C16_CropsFromCapturedFrame ==
    selected_face # <<>> => cut.marks = 0

\* the Face objects a warehouse holds
ObjectsOf(wh) == {wh[i].oid : i \in DOMAIN wh}

\* C13: no step changes the test directory, and the training and the test
\* warehouse never hold the same Face object.
C13_TrainTestIsolation ==
    /\ [][tst' = tst]_vars
    /\ [](ObjectsOf(trn_wh) \cap ObjectsOf(tst_wh) = {})

\* C13 witness: samples were deleted from the train directory; the test
\* directory is as at the start and both warehouses hold faces.
C13_Witness ==
    /\ pc = "acquire" /\ last.k = "d" /\ last.paths # <<>>
    /\ tst = TestDir
    /\ trn_wh # <<>> /\ tst_wh # <<>>

\* every uid that has samples in the directory has exactly the zero-padded
\* identifiers (uid,0)..(uid,n-1)
Dense(dir) ==
    \A file \in DOMAIN dir : file[3] = "jpg" => Contiguous(dir, int(file[1]))

\* C14: no step of the session loop takes a gap-free train directory to one
\* with a gap (or ends the loop by a failed file operation), so a directory
\* that is gap-free at the start is gap-free after any sequence of commands.
C14_DensityPreserved ==
    [][(train' # train \/ pc' = "crashed") =>
          (Dense(train) => (Dense(train') /\ pc' # "crashed"))]_vars

\* C14 witness: a gap-free directory after a third sample was appended to the
\* samples 0 and 1 of a uid.
C14_Witness ==
    /\ pc = "acquire" /\ last.k = "a" /\ last.path # <<>>
    /\ int(last.path[2]) = 2
    /\ Dense(train)

\* C15 (as claimed): with the user keeping on ESC and the loop running, the
\* session eventually releases the capture source and stops, whatever frames
\* the capture source returns.
C15_TerminateHonoured == <>(pc = "stopped" /\ released = 1)

\* C15 (amended): with the user keeping on ESC and the loop running, the
\* session eventually releases the capture source and stops, provided the
\* capture source at some time returns a frame that is not dropped.
C15_TerminateHonouredOnFrame ==
    <>(pc # "acquire") => <>(pc = "stopped" /\ released = 1)

\* C15 witness: the session stopped by ESC with the capture source released
\* once, in a frame that showed a face.
C15_Witness ==
    /\ pc = "stopped" /\ released = 1 /\ last.k = "esc"
    /\ selected_face # <<>>

====
